---------------------------- MODULE Spec2Model ----------------------------
(***************************************************************************)
(* The crossword CSP solver of src/crossword/generate.py                   *)
(* (class CrosswordCreator) as a state machine: solve() runs               *)
(* enforce_node_consistency, ac3 and the recursive backtrack search.  The  *)
(* recursion of backtrack is an explicit stack of frames; the work queue   *)
(* of ac3 is a sequence of arcs.  A word is a sequence of letters; an      *)
(* assignment (a Python dict, which iterates in insertion order) is a      *)
(* sequence of <<variable, word>> pairs.  Iteration orders of Python sets  *)
(* and random.choice are nondeterministic choices.                         *)
(*                                                                         *)
(* Spec runs solve().  UnitSpec and Ac3Spec call the methods of            *)
(* CrosswordCreator on their own, on any Domain Store; `call` holds the    *)
(* arguments and the store before the call, `ret` the returned value.      *)
(* TicTacToe plays src/tictactoe/tictactoe.py and calls minimax and        *)
(* result on the boards of the game.                                       *)
(***************************************************************************)
EXTENDS Integers, Sequences, FiniteSets, TLC

VARIABLES crossword, domains, assignment, stack, queue, arcs, pc,
          ac3caller, ac3ret, consistentRet, result,
          call, ret, board

vars == <<crossword, domains, assignment, stack, queue, arcs, pc,
          ac3caller, ac3ret, consistentRet, result, call, ret, board>>

-----------------------------------------------------------------------------
(* Bounds and inputs                                                       *)

\* largest vocabulary drawn from WordPool
MaxVocab == 4

ACROSS == "across"
DOWN == "down"

CAT == <<"C", "A", "T">>
DOG == <<"D", "O", "G">>
ABC == <<"A", "B", "C">>
ACE == <<"A", "C", "E">>
TIE == <<"T", "I", "E">>
AT == <<"A", "T">>

WordPool == {CAT, DOG, ABC, ACE, TIE, AT}

\* a slot: starting row i, starting column j, direction, length
Variable(i, j, direction, length) ==
    [i |-> i, j |-> j, direction |-> direction, length |-> length]

\* 1x3 open row: one slot, no neighbors
Row13 == Variable(0, 0, ACROSS, 3)
\* two slots of length 3 that do not cross
TopRow == Variable(0, 0, ACROSS, 3)
BottomRow == Variable(2, 0, ACROSS, 3)
\* X crosses Y: index 1 of X is index 0 of Y
SlotX == Variable(1, 0, ACROSS, 3)
SlotY == Variable(1, 1, DOWN, 3)
\* a chain A - B - C: A[0] = B[0], B[2] = C[0]
SlotA == Variable(0, 0, ACROSS, 3)
SlotB == Variable(0, 0, DOWN, 3)
SlotC == Variable(2, 0, ACROSS, 3)
\* a slot of length 2 that crosses nothing
SlotZ == Variable(5, 0, ACROSS, 2)

GridRow == {Row13}
GridParallel == {TopRow, BottomRow}
GridCross == {SlotX, SlotY}
GridChain == {SlotA, SlotB, SlotC}
GridMixed == {SlotX, SlotY, SlotZ}

Grids == {GridRow, GridParallel, GridCross, GridChain, GridMixed}

\* a ring of four slots, T - L - B - R - T, on a 4x3 grid with a blocked
\* middle: T[0] = L[0], T[2] = R[0], B[0] = L[3], B[2] = R[3]
SlotT == Variable(0, 0, ACROSS, 3)
SlotL == Variable(0, 0, DOWN, 4)
SlotR == Variable(0, 2, DOWN, 4)
SlotBottom == Variable(3, 0, ACROSS, 3)

GridRing == {SlotT, SlotL, SlotR, SlotBottom}

\* a vocabulary that is arc consistent on the ring and has no solution:
\* every binding of a slot empties a domain two crossings away
AXC == <<"A", "X", "C">>
BXD == <<"B", "X", "D">>
EXH == <<"E", "X", "H">>
FXG == <<"F", "X", "G">>
AXXE == <<"A", "X", "X", "E">>
BXXF == <<"B", "X", "X", "F">>
CXXG == <<"C", "X", "X", "G">>
DXXH == <<"D", "X", "X", "H">>

RingWords == {AXC, BXD, EXH, FXG, AXXE, BXXF, CXXG, DXXH}

RingPuzzle == [variables |-> GridRing, words |-> RingWords]

\* the word lists: at least one word, at most MaxVocab
Vocabularies ==
    {w \in SUBSET WordPool : w # {} /\ Cardinality(w) <= MaxVocab}

-----------------------------------------------------------------------------
(* Grid model: cells, overlaps, neighbors                                  *)

\* the cell of the k-th letter (0-based) of a slot
Cell(variable, k) ==
    <<variable.i + (IF variable.direction = DOWN THEN k ELSE 0),
      variable.j + (IF variable.direction = ACROSS THEN k ELSE 0)>>

\* the value of overlaps[x, y] for slots that share no cell (Python None)
NoOverlap == <<>>

\* overlaps[x, y]: NoOverlap, or <<index in x, index in y>> of the shared cell
overlaps(x, y) ==
    LET shared == {p \in (0 .. x.length - 1) \X (0 .. y.length - 1) :
                       Cell(x, p[1]) = Cell(y, p[2])}
    IN IF x = y \/ shared = {} THEN NoOverlap ELSE CHOOSE p \in shared : TRUE

neighbors(x) ==
    {v \in crossword.variables : v # x /\ overlaps(v, x) # NoOverlap}

\* every enumeration without repetition of a finite set (an iteration order)
Orders(S) ==
    {f \in [1 .. Cardinality(S) -> S] :
        \A a, b \in 1 .. Cardinality(S) : a # b => f[a] # f[b]}

\* the 0-based character of a word
Char(word, index) == word[index + 1]

-----------------------------------------------------------------------------
(* Assignment: a dict in insertion order                                   *)

Bound(asg) == {asg[k][1] : k \in DOMAIN asg}

Value(asg, var) == asg[CHOOSE k \in DOMAIN asg : asg[k][1] = var][2]

-----------------------------------------------------------------------------
(* Consistency engine                                                      *)

\* at most one word of a wrong length is dropped from each domain
enforce_node_consistency_once(doms) ==
    [var \in DOMAIN doms |->
        LET wrong == {word \in doms[var] : Len(word) # var.length}
        IN IF wrong = {} THEN doms[var]
           ELSE doms[var] \ {CHOOSE word \in wrong : TRUE}]

\* enforce_node_consistency: drop the words whose length is not the slot's
enforce_node_consistency(doms) ==
    [var \in DOMAIN doms |-> {word \in doms[var] : Len(word) = var.length}]

\* no word is ever removed
revise_keep(doms, x, y) == doms[x]

\* the words revise(x, y) leaves in domains[x]
revise(doms, x, y) ==
    IF overlaps(x, y) # NoOverlap
    THEN LET x_overlap_index == overlaps(x, y)[1]
             y_overlap_index == overlaps(x, y)[2]
         IN {x_word \in doms[x] :
                \E y_word \in doms[y] :
                    Char(x_word, x_overlap_index) = Char(y_word, y_overlap_index)}
    ELSE doms[x]

\* the value revise(x, y) returns: some word of domains[x] was removed
revise_returns(doms, x, y) ==
    /\ overlaps(x, y) # NoOverlap
    /\ \E x_word \in doms[x] :
          \A y_word \in doms[y] :
              Char(x_word, overlaps(x, y)[1]) # Char(y_word, overlaps(x, y)[2])

\* the initial queue of ac3 when `arcs` is falsy: for x in domains, for y in
\* neighbors(x); both iteration orders are arbitrary
RECURSIVE GroupedOrders(_, _)
\* the sequences that list, for each element v of varSeq in turn, the arcs
\* arcsOf[v] in some order
GroupedOrders(varSeq, arcsOf) ==
    IF varSeq = <<>> THEN {<<>>}
    ELSE {first \o rest : first \in Orders(arcsOf[Head(varSeq)]),
                          rest \in GroupedOrders(Tail(varSeq), arcsOf)}

AllArcs ==
    UNION {GroupedOrders(varSeq,
                         [x \in crossword.variables |->
                             {<<x, y>> : y \in neighbors(x)}]) :
           varSeq \in Orders(crossword.variables)}

\* nothing is appended after a revision
Requeue_nothing(x, y) == {<<>>}

\* the arcs ac3 appends after revise(x, y) shrank domains[x]
Requeue(x, y) == Orders({<<z, x>> : z \in neighbors(x) \ {y}})

-----------------------------------------------------------------------------
(* Search engine: pure parts                                               *)

\* assignment_complete that walks the assignment, not the variables
assignment_complete_of_bound(asg) ==
    \A var \in Bound(asg) : var \in Bound(asg)

assignment_complete(asg) ==
    \A var \in crossword.variables : var \in Bound(asg)

\* the duplicate scan skipped
duplicate_unchecked(asg, k) == FALSE

\* the duplicate scan of consistent() for the k-th bound variable: some
\* other bound variable holds the same word
duplicate(asg, k) ==
    \E k2 \in DOMAIN asg : k2 # k /\ asg[k2][2] = asg[k][2]

RECURSIVE consistent_from(_, _, _, _)
\* the loop of consistent() from the k-th bound variable on.  `checked` is
\* the list of pairs appended so far; `neighbor` is the local variable of
\* that name: {} while it is unbound, else {its value}.  The result is the
\* set of outcomes over the iteration orders of neighbors().
consistent_from(asg, k, checked, neighbor) ==
    IF k > Len(asg) THEN {"True"}
    ELSE
      LET var == asg[k][1]
          word == asg[k][2]
          skipped(n) == <<var, n>> \in checked \/ <<n, var>> \in checked
          conflict(n) ==
              /\ n \in Bound(asg)
              /\ Char(word, overlaps(var, n)[1])
                    # Char(Value(asg, n), overlaps(var, n)[2])
          after == IF neighbors(var) = {} THEN {neighbor}
                   ELSE {{n} : n \in neighbors(var)}
      IN IF var.length # Len(word) THEN {"False"}
         ELSE IF \E n \in neighbors(var) : ~skipped(n) /\ conflict(n)
         THEN {"False"}
         ELSE UNION {
                IF last = {} THEN {"UnboundLocalError"}
                ELSE IF duplicate(asg, k) THEN {"False"}
                ELSE consistent_from(asg, k + 1,
                        checked \cup {<<var, CHOOSE n \in last : TRUE>>}, last)
                : last \in after}

\* the outcomes of consistent(assignment)
consistent(asg) == consistent_from(asg, 1, {}, {})

\* the words of every neighbor are counted, bound or not
word_rank_all_neighbors(var, asg, doms, word) ==
    Cardinality({p \in UNION {{<<neighbor, neighbor_word>> :
                                   neighbor_word \in doms[neighbor]} :
                              neighbor \in neighbors(var)} :
                    \/ p[2] = word
                    \/ Char(word, overlaps(var, p[1])[1])
                         # Char(p[2], overlaps(var, p[1])[2])})

\* word_rank[word] of order_domain_values
word_rank(var, asg, doms, word) ==
    Cardinality({p \in UNION {{<<neighbor, neighbor_word>> :
                                   neighbor_word \in doms[neighbor]} :
                              neighbor \in neighbors(var) \ Bound(asg)} :
                    \/ p[2] = word
                    \/ Char(word, overlaps(var, p[1])[1])
                         # Char(p[2], overlaps(var, p[1])[2])})

\* the lists order_domain_values may return: sorted() is stable, the order
\* of equal ranks is the iteration order of the domain set
order_domain_values(var, asg, doms) ==
    {values \in Orders(doms[var]) :
        \A a, b \in DOMAIN values :
            a < b => word_rank(var, asg, doms, values[a])
                        <= word_rank(var, asg, doms, values[b])}

\* any unassigned variable
select_unassigned_variable_any(asg, doms) ==
    crossword.variables \ Bound(asg)

\* the variables select_unassigned_variable may return
select_unassigned_variable(asg, doms) ==
    LET unassigned == crossword.variables \ Bound(asg)
        smallest_domains ==
            {v \in unassigned :
                \A u \in unassigned :
                    Cardinality(doms[v]) <= Cardinality(doms[u])}
        degree(v) == Cardinality(neighbors(v) \ Bound(asg))
        largest_degree ==
            {v \in smallest_domains :
                \A u \in smallest_domains : degree(v) >= degree(u)}
    IN IF Cardinality(smallest_domains) = 1 THEN smallest_domains
       ELSE largest_degree

\* the arcs backtrack passes to ac3: for variable in assignment, for
\* neighbor in neighbors(variable) not in assignment
trial_arcs(asg) ==
    GroupedOrders([k \in DOMAIN asg |-> asg[k][1]],
                  [variable \in Bound(asg) |->
                      {<<neighbor, variable>> :
                          neighbor \in neighbors(variable) \ Bound(asg)}])

\* every bound variable gets the word bound last
narrow_last_value(doms, asg) ==
    [var \in DOMAIN doms |->
        IF var \in Bound(asg) THEN {asg[Len(asg)][2]} ELSE doms[var]]

\* self.domains[variable] = {assignment[variable]} for every bound variable
narrow(doms, asg) ==
    [var \in DOMAIN doms |->
        IF var \in Bound(asg) THEN {Value(asg, var)} ELSE doms[var]]

-----------------------------------------------------------------------------
(* Tic-tac-toe (src/tictactoe/tictactoe.py): a board is three rows of      *)
(* three cells; the 0-based cell (i, j) of b is b[i + 1][j + 1]; an action *)
(* is <<i, j>>                                                             *)

\* most empty cells of a board minimax is called on
MaxEmpty == 5

X == "X"
O == "O"
\* Python None: an empty cell, and the value of winner() without a winner
EMPTY == "EMPTY"

\* the value None of minimax on a terminal board
NoAction == <<>>

initial_state == <<<<EMPTY, EMPTY, EMPTY>>,
                   <<EMPTY, EMPTY, EMPTY>>,
                   <<EMPTY, EMPTY, EMPTY>>>>

Cells == (0 .. 2) \X (0 .. 2)

At(b, cell) == b[cell[1] + 1][cell[2] + 1]

player(b) ==
    LET x_count == Cardinality({c \in Cells : At(b, c) = X})
        o_count == Cardinality({c \in Cells : At(b, c) = O})
    IN IF o_count < x_count THEN O ELSE X

actions(b) == {c \in Cells : At(b, c) = EMPTY}

\* the shallow copy: the rows of new_board are the rows of the input, which
\* is written too
result_shallow_copy(b, action) ==
    IF action \notin actions(b)
    THEN [raised |-> TRUE, new_board |-> <<>>, board |-> b]
    ELSE LET new_board ==
                 [b EXCEPT ![action[1] + 1][action[2] + 1] = player(b)]
         IN [raised |-> FALSE, new_board |-> new_board, board |-> new_board]

\* result(board, action): whether it raises, the board it returns, and the
\* input board after the call (new_board is a deep copy)
result_of(b, action) ==
    IF action \notin actions(b)
    THEN [raised |-> TRUE, new_board |-> <<>>, board |-> b]
    ELSE [raised |-> FALSE,
          new_board |-> [b EXCEPT ![action[1] + 1][action[2] + 1] = player(b)],
          board |-> b]

\* the lines in the order winner() tests them: for i in 0 .. 2 column i then
\* row i, then the two diagonals
Lines ==
    <<<<<<0, 0>>, <<1, 0>>, <<2, 0>>>>, <<<<0, 0>>, <<0, 1>>, <<0, 2>>>>,
      <<<<0, 1>>, <<1, 1>>, <<2, 1>>>>, <<<<1, 0>>, <<1, 1>>, <<1, 2>>>>,
      <<<<0, 2>>, <<1, 2>>, <<2, 2>>>>, <<<<2, 0>>, <<2, 1>>, <<2, 2>>>>,
      <<<<0, 0>>, <<1, 1>>, <<2, 2>>>>, <<<<0, 2>>, <<1, 1>>, <<2, 0>>>>>>

winner(b) ==
    LET won == {k \in DOMAIN Lines :
                   /\ At(b, Lines[k][1]) = At(b, Lines[k][2])
                   /\ At(b, Lines[k][2]) = At(b, Lines[k][3])
                   /\ At(b, Lines[k][3]) # EMPTY}
    IN IF won = {} THEN EMPTY
       ELSE At(b, Lines[CHOOSE k \in won : \A l \in won : k <= l][1])

terminal(b) ==
    \/ winner(b) # EMPTY
    \/ \A c \in Cells : At(b, c) # EMPTY

utility(b) ==
    IF winner(b) = X THEN 1
    ELSE IF winner(b) = O THEN -1
    ELSE 0

Largest(S) == CHOOSE v \in S : \A u \in S : v >= u

Smallest(S) == CHOOSE v \in S : \A u \in S : v <= u

RECURSIVE maxValue(_), minValue(_)

maxValue(b) ==
    IF terminal(b) THEN utility(b)
    ELSE Largest({minValue(result_of(b, action).new_board) :
                     action \in actions(b)})

\* max() where min() belongs
minValue_of_max(b) ==
    IF terminal(b) THEN utility(b)
    ELSE Largest({maxValue(result_of(b, action).new_board) :
                     action \in actions(b)})

minValue(b) ==
    IF terminal(b) THEN utility(b)
    ELSE Smallest({maxValue(result_of(b, action).new_board) :
                      action \in actions(b)})

\* the value minimax compares for an action: minValue of the resulting board
\* when X moves, maxValue when O moves
action_value(b, action) ==
    IF player(b) = X THEN minValue(result_of(b, action).new_board)
    ELSE maxValue(result_of(b, action).new_board)

\* the values minimax computes, one for each action of the board
action_values(b) ==
    {<<action, action_value(b, action)>> : action \in actions(b)}

ValueOf(values, action) == (CHOOSE p \in values : p[1] = action)[2]

RECURSIVE minimax_loop(_, _, _, _, _, _)
\* the for loop of minimax from the k-th action of the iteration order on:
\* an action replaces optimal_action when its value is strictly better
minimax_loop(b, values, order, k, optimal_action, opt_value) ==
    IF k > Len(order) THEN optimal_action
    ELSE LET action_val == ValueOf(values, order[k])
             better == IF player(b) = X THEN action_val > opt_value
                       ELSE action_val < opt_value
         IN IF better
            THEN minimax_loop(b, values, order, k + 1, order[k], action_val)
            ELSE minimax_loop(b, values, order, k + 1, optimal_action,
                              opt_value)

\* the actions minimax(board) may return, over the iteration orders of the
\* set actions(board); list(actions(board))[0] is the first of the order
minimax(b) ==
    IF terminal(b) THEN {NoAction}
    ELSE LET values == action_values(b)
         IN {minimax_loop(b, values, order, 1, order[1],
                          ValueOf(values, order[1])) :
                order \in Orders(actions(b))}

-----------------------------------------------------------------------------
(* The solver as a state machine                                           *)

NoArcs == [none |-> TRUE, list |-> <<>>]

Pending == [kind |-> "pending", value |-> <<>>]

\* no operation is called on its own: solve() runs
NoCall == [op |-> "none"]

Init ==
    /\ crossword \in {[variables |-> g, words |-> w] :
                         g \in Grids, w \in Vocabularies} \cup {RingPuzzle}
    /\ domains = [var \in crossword.variables |-> crossword.words]
    /\ assignment = <<>>
    /\ stack = <<>>
    /\ queue = <<>>
    /\ arcs = NoArcs
    /\ pc = "solve"
    /\ ac3caller = "none"
    /\ ac3ret = "none"
    /\ consistentRet = "none"
    /\ result = Pending
    /\ call = NoCall
    /\ ret = NoCall
    /\ board = initial_state

\* the call of ac3(arcs) by `caller`: the queue is `arcs` when it is truthy
\* (given and non-empty), else every arc of the problem
ac3_call(caller, given) ==
    /\ arcs' = given
    /\ queue' \in (IF ~given.none /\ given.list # <<>> THEN {given.list}
                   ELSE AllArcs)
    /\ ac3caller' = caller
    /\ pc' = "ac3"

\* solve(): self.enforce_node_consistency()
solve_enforce_node_consistency ==
    /\ pc = "solve"
    /\ domains' = enforce_node_consistency(domains)
    /\ pc' = "solve_ac3"
    /\ UNCHANGED <<call, ret, board, crossword, assignment, stack, queue, arcs, ac3caller,
                   ac3ret, consistentRet, result>>

\* solve(): self.ac3()
solve_ac3 ==
    /\ pc = "solve_ac3"
    /\ ac3_call("solve", NoArcs)
    /\ UNCHANGED <<call, ret, board, crossword, domains, assignment, stack, ac3ret,
                   consistentRet, result>>

\* the head of the queue is read and left in the queue
ac3_iterate_peek ==
    /\ pc = "ac3"
    /\ queue # <<>>
    /\ LET x == Head(queue)[1]
           y == Head(queue)[2]
           shrunk == revise(domains, x, y) # domains[x]
       IN /\ domains' = [domains EXCEPT ![x] = revise(domains, x, y)]
          /\ IF shrunk /\ domains'[x] = {}
             THEN /\ ac3ret' = "False"
                  /\ pc' = "ac3_returned"
                  /\ queue' = queue
             ELSE /\ queue' \in (IF shrunk
                                 THEN {queue \o added : added \in Requeue(x, y)}
                                 ELSE {queue})
                  /\ UNCHANGED <<ac3ret, pc>>
    /\ UNCHANGED <<call, ret, board, crossword, assignment, stack, arcs,
                   ac3caller, consistentRet, result>>

\* one iteration of the while loop of ac3
ac3_iterate ==
    /\ pc = "ac3"
    /\ queue # <<>>
    /\ LET x == Head(queue)[1]
           y == Head(queue)[2]
           revised == revise(domains, x, y) # domains[x]
       IN /\ domains' = [domains EXCEPT ![x] = revise(domains, x, y)]
          /\ IF revised /\ domains'[x] = {}
             THEN /\ ac3ret' = "False"
                  /\ pc' = "ac3_returned"
                  /\ queue' = Tail(queue)
             ELSE /\ queue' \in (IF revised
                                 THEN {Tail(queue) \o added :
                                          added \in Requeue(x, y)}
                                 ELSE {Tail(queue)})
                  /\ UNCHANGED <<ac3ret, pc>>
    /\ UNCHANGED <<call, ret, board, crossword, assignment, stack, arcs, ac3caller,
                   consistentRet, result>>

\* the queue of ac3 is empty: return True
ac3_finish ==
    /\ pc = "ac3"
    /\ queue = <<>>
    /\ ac3ret' = "True"
    /\ pc' = "ac3_returned"
    /\ UNCHANGED <<call, ret, board, crossword, domains, assignment, stack, queue, arcs,
                   ac3caller, consistentRet, result>>

\* solve(): return self.backtrack(dict()); the value of ac3 is not used
solve_backtrack ==
    /\ pc = "ac3_returned"
    /\ ac3caller = "solve"
    /\ pc' = "backtrack"
    /\ UNCHANGED <<call, ret, board, crossword, domains, assignment, stack, queue, arcs,
                   ac3caller, ac3ret, consistentRet, result>>

\* entry of backtrack(assignment): return a complete assignment, else pick
\* the variable and the list of values of the for loop
backtrack_enter ==
    /\ pc = "backtrack"
    /\ IF assignment_complete(assignment)
       THEN /\ pc' = "return_assignment"
            /\ UNCHANGED stack
       ELSE /\ \E var \in select_unassigned_variable(assignment, domains) :
                 \E values \in order_domain_values(var, assignment, domains) :
                    stack' = Append(stack,
                        [var |-> var, values |-> values,
                         domains_copy |-> domains,
                         entry |-> [domains |-> domains,
                                    assignment |-> assignment]])
            /\ pc' = "for"
    /\ UNCHANGED <<call, ret, board, crossword, domains, assignment, queue, arcs, ac3caller,
                   ac3ret, consistentRet, result>>

Top == stack[Len(stack)]

\* the next value of the for loop: bind it, copy the domains, call consistent
backtrack_try ==
    /\ pc = "for"
    /\ Top.values # <<>>
    /\ assignment' = Append(assignment, <<Top.var, Head(Top.values)>>)
    /\ stack' = [stack EXCEPT ![Len(stack)] =
                    [@ EXCEPT !.values = Tail(@), !.domains_copy = domains]]
    /\ consistentRet' \in consistent(assignment')
    /\ pc' = "consistent_returned"
    /\ UNCHANGED <<call, ret, board, crossword, domains, queue, arcs, ac3caller, ac3ret,
                   result>>

\* consistent() raised: nothing catches it, solve() aborts
backtrack_raise ==
    /\ pc = "consistent_returned"
    /\ consistentRet = "UnboundLocalError"
    /\ result' = [kind |-> "exception", value |-> <<>>]
    /\ pc' = "aborted"
    /\ UNCHANGED <<call, ret, board, crossword, domains, assignment, stack, queue, arcs,
                   ac3caller, ac3ret, consistentRet>>

\* consistent() returned True: narrow the bound domains, build the arcs and
\* call ac3(arcs)
backtrack_propagate ==
    /\ pc = "consistent_returned"
    /\ consistentRet = "True"
    /\ domains' = narrow(domains, assignment)
    /\ \E list \in trial_arcs(assignment) :
          ac3_call("backtrack", [none |-> FALSE, list |-> list])
    /\ UNCHANGED <<call, ret, board, crossword, assignment, stack, ac3ret, consistentRet,
                   result>>

\* consistent() returned False: fall through to the undo
backtrack_inconsistent ==
    /\ pc = "consistent_returned"
    /\ consistentRet = "False"
    /\ pc' = "undo"
    /\ UNCHANGED <<call, ret, board, crossword, domains, assignment, stack, queue, arcs,
                   ac3caller, ac3ret, consistentRet, result>>

\* the value of ac3(arcs) is not tested: backtrack recurses in any case
backtrack_ac3_returned_untested ==
    /\ pc = "ac3_returned"
    /\ ac3caller = "backtrack"
    /\ pc' = "backtrack"
    /\ UNCHANGED <<call, ret, board, crossword, domains, assignment, stack,
                   queue, arcs, ac3caller, ac3ret, consistentRet, result>>

\* ac3(arcs) returned to backtrack: recurse when it is True
backtrack_ac3_returned ==
    /\ pc = "ac3_returned"
    /\ ac3caller = "backtrack"
    /\ pc' = IF ac3ret = "True" THEN "backtrack" ELSE "undo"
    /\ UNCHANGED <<call, ret, board, crossword, domains, assignment, stack, queue, arcs,
                   ac3caller, ac3ret, consistentRet, result>>

\* the binding is removed and the narrowed domains are kept
backtrack_undo_keep_domains ==
    /\ pc = "undo"
    /\ assignment' = SelectSeq(assignment, LAMBDA b : b[1] # Top.var)
    /\ pc' = "for"
    /\ UNCHANGED <<call, ret, board, crossword, domains, stack, queue, arcs,
                   ac3caller, ac3ret, consistentRet, result>>

\* del assignment[var]; self.domains = deepcopy(domains_copy)
backtrack_undo ==
    /\ pc = "undo"
    /\ assignment' = SelectSeq(assignment, LAMBDA b : b[1] # Top.var)
    /\ domains' = Top.domains_copy
    /\ pc' = "for"
    /\ UNCHANGED <<call, ret, board, crossword, stack, queue, arcs, ac3caller, ac3ret,
                   consistentRet, result>>

\* the for loop is over: return None, to the caller's `if result:` or to
\* solve()
backtrack_exhausted ==
    /\ pc = "for"
    /\ Top.values = <<>>
    /\ stack' = SubSeq(stack, 1, Len(stack) - 1)
    /\ IF Len(stack) = 1
       THEN /\ result' = [kind |-> "None", value |-> <<>>]
            /\ pc' = "done"
       ELSE /\ pc' = "undo"
            /\ UNCHANGED result
    /\ UNCHANGED <<call, ret, board, crossword, domains, assignment, queue, arcs, ac3caller,
                   ac3ret, consistentRet>>

\* the caller does not return the result of the recursive call: it falls
\* through to the undo and goes on with its next value
backtrack_return_dropped ==
    /\ pc = "return_assignment"
    /\ IF stack = <<>>
       THEN /\ result' = [kind |-> "assignment", value |-> assignment]
            /\ pc' = "done"
       ELSE /\ pc' = "undo"
            /\ UNCHANGED result
    /\ UNCHANGED <<call, ret, board, crossword, domains, assignment, stack,
                   queue, arcs, ac3caller, ac3ret, consistentRet>>

\* a call returns the complete assignment: `return result` in each caller,
\* then solve() returns it
backtrack_return ==
    /\ pc = "return_assignment"
    /\ IF stack = <<>>
       THEN /\ result' = [kind |-> "assignment", value |-> assignment]
            /\ pc' = "done"
            /\ UNCHANGED stack
       ELSE /\ stack' = SubSeq(stack, 1, Len(stack) - 1)
            /\ UNCHANGED <<result, pc>>
    /\ UNCHANGED <<call, ret, board, crossword, domains, assignment, queue, arcs, ac3caller,
                   ac3ret, consistentRet>>

Next ==
    \/ solve_enforce_node_consistency
    \/ solve_ac3
    \/ ac3_iterate
    \/ ac3_finish
    \/ solve_backtrack
    \/ backtrack_enter
    \/ backtrack_try
    \/ backtrack_raise
    \/ backtrack_propagate
    \/ backtrack_inconsistent
    \/ backtrack_ac3_returned
    \/ backtrack_undo
    \/ backtrack_exhausted
    \/ backtrack_return

Spec == Init /\ [][Next]_vars

-----------------------------------------------------------------------------
(* The operations of CrosswordCreator called on their own, on a Domain     *)
(* Store of any content                                                    *)

\* longest explicit list of arcs passed to ac3
MaxArcs == 2

\* the puzzles the operations are called on
UnitPuzzles ==
    {[variables |-> GridMixed, words |-> {CAT, ACE, AT}],
     [variables |-> GridChain, words |-> {CAT, ACE, ABC}],
     [variables |-> GridParallel, words |-> {CAT, AT}]}

\* every domain holds words of its slot's length only: what the callers of
\* revise, ac3 and order_domain_values hold, since word[index] is read at
\* the overlap indices of the slot
NodeConsistent(doms) ==
    \A var \in DOMAIN doms : \A word \in doms[var] : Len(word) = var.length

\* the assignments passed in: distinct slots in any insertion order, each
\* bound to a vocabulary word of its length, at least one slot left unbound
PartialAssignments ==
    UNION {{asg \in [1 .. n -> crossword.variables \X crossword.words] :
               /\ \A a, b \in 1 .. n : a # b => asg[a][1] # asg[b][1]
               /\ \A a \in 1 .. n : Len(asg[a][2]) = asg[a][1].length} :
           n \in 0 .. Cardinality(crossword.variables) - 1}

\* the `arcs` argument of ac3: None, or a list of at most MaxArcs arcs
\* between neighbors
ArcArguments ==
    LET pairs == {p \in crossword.variables \X crossword.variables :
                     p[1] \in neighbors(p[2])}
    IN {NoArcs} \cup
       {[none |-> FALSE, list |-> list] :
           list \in UNION {[1 .. n -> pairs] : n \in 0 .. MaxArcs}}

\* the puzzles ac3 is called on
Ac3Puzzles ==
    {[variables |-> GridMixed, words |-> {CAT, ACE, AT}],
     [variables |-> GridChain, words |-> {CAT, ABC}]}

\* an operation is about to be called on any Domain Store of a puzzle
UnitInitOn(puzzles) ==
    /\ crossword \in puzzles
    /\ domains \in [crossword.variables -> SUBSET crossword.words]
    /\ assignment = <<>>
    /\ stack = <<>>
    /\ queue = <<>>
    /\ arcs = NoArcs
    /\ pc = "unit"
    /\ ac3caller = "none"
    /\ ac3ret = "none"
    /\ consistentRet = "none"
    /\ result = Pending
    /\ call = NoCall
    /\ ret = NoCall
    /\ board = initial_state

UnitInit == UnitInitOn(UnitPuzzles)

Ac3Init == UnitInitOn(Ac3Puzzles) /\ NodeConsistent(domains)

\* enforce_node_consistency(), once or a second time in a row
unit_enforce_node_consistency ==
    /\ \/ pc = "unit"
       \/ /\ pc = "unit_returned"
          /\ call.op = "enforce_node_consistency"
          /\ call.nth = 1
    /\ call' = [op |-> "enforce_node_consistency",
                nth |-> IF pc = "unit" THEN 1 ELSE 2,
                first |-> IF pc = "unit" THEN domains ELSE call.first,
                domains |-> domains]
    /\ domains' = enforce_node_consistency(domains)
    /\ ret' = [op |-> "enforce_node_consistency"]
    /\ pc' = "unit_returned"
    /\ UNCHANGED <<board, crossword, assignment, stack, queue, arcs,
                   ac3caller, ac3ret, consistentRet, result>>

\* revise(x, y) for two different slots, neighbors or not
unit_revise ==
    /\ pc = "unit"
    /\ NodeConsistent(domains)
    /\ \E x, y \in crossword.variables :
          /\ x # y
          /\ call' = [op |-> "revise", x |-> x, y |-> y, domains |-> domains]
          /\ domains' = [domains EXCEPT ![x] = revise(domains, x, y)]
          /\ ret' = [op |-> "revise",
                     revised |-> revise_returns(domains, x, y)]
    /\ pc' = "unit_returned"
    /\ UNCHANGED <<board, crossword, assignment, stack, queue, arcs,
                   ac3caller, ac3ret, consistentRet, result>>

\* ac3(arcs): the while loop runs as ac3_iterate and ac3_finish
unit_ac3 ==
    /\ pc = "unit"
    /\ NodeConsistent(domains)
    /\ \E given \in ArcArguments :
          /\ ac3_call("unit", given)
          /\ call' = [op |-> "ac3", arcs |-> given, domains |-> domains]
    /\ UNCHANGED <<ret, board, crossword, domains, assignment, stack, ac3ret,
                   consistentRet, result>>

\* ac3 returned to its caller
unit_ac3_returned ==
    /\ pc = "ac3_returned"
    /\ ac3caller = "unit"
    /\ ret' = [op |-> "ac3", returned |-> ac3ret]
    /\ pc' = "unit_returned"
    /\ UNCHANGED <<call, board, crossword, domains, assignment, stack, queue,
                   arcs, ac3caller, ac3ret, consistentRet, result>>

\* select_unassigned_variable(assignment)
unit_select_unassigned_variable ==
    /\ pc = "unit"
    /\ \E asg \in PartialAssignments :
          /\ call' = [op |-> "select_unassigned_variable",
                      assignment |-> asg, domains |-> domains]
          /\ \E var \in select_unassigned_variable(asg, domains) :
                ret' = [op |-> "select_unassigned_variable", variable |-> var]
    /\ pc' = "unit_returned"
    /\ UNCHANGED <<board, crossword, domains, assignment, stack, queue, arcs,
                   ac3caller, ac3ret, consistentRet, result>>

\* order_domain_values(var, assignment) for a slot not in the assignment
unit_order_domain_values ==
    /\ pc = "unit"
    /\ NodeConsistent(domains)
    /\ \E asg \in PartialAssignments :
          \E var \in crossword.variables \ Bound(asg) :
             /\ call' = [op |-> "order_domain_values", var |-> var,
                         assignment |-> asg, domains |-> domains]
             /\ \E values \in order_domain_values(var, asg, domains) :
                   ret' = [op |-> "order_domain_values", values |-> values]
    /\ pc' = "unit_returned"
    /\ UNCHANGED <<board, crossword, domains, assignment, stack, queue, arcs,
                   ac3caller, ac3ret, consistentRet, result>>

UnitNext ==
    \/ unit_enforce_node_consistency
    \/ unit_revise
    \/ unit_select_unassigned_variable
    \/ unit_order_domain_values

UnitSpec == UnitInit /\ [][UnitNext]_vars

Ac3Next ==
    \/ unit_ac3
    \/ ac3_iterate
    \/ ac3_finish
    \/ unit_ac3_returned

\* ac3 called on its own; the while loop keeps running until it returns
Ac3Spec ==
    /\ Ac3Init
    /\ [][Ac3Next]_vars
    /\ WF_vars(ac3_iterate)
    /\ WF_vars(ac3_finish)

-----------------------------------------------------------------------------
(* Tic-tac-toe: a game is played move by move; on any board reached,       *)
(* minimax or result is called                                             *)

TicTacToeInit ==
    /\ board = initial_state
    /\ pc = "play"
    /\ call = NoCall
    /\ ret = NoCall
    /\ crossword = [variables |-> {}, words |-> {}]
    /\ domains = <<>>
    /\ assignment = <<>>
    /\ stack = <<>>
    /\ queue = <<>>
    /\ arcs = NoArcs
    /\ ac3caller = "none"
    /\ ac3ret = "none"
    /\ consistentRet = "none"
    /\ result = Pending

\* the player to move takes an empty cell: board = result(board, move)
play_move ==
    /\ pc = "play"
    /\ ~ terminal(board)
    /\ \E move \in actions(board) :
          board' = result_of(board, move).new_board
    /\ UNCHANGED <<call, ret, crossword, domains, assignment, stack, queue,
                   arcs, pc, ac3caller, ac3ret, consistentRet, result>>

\* minimax(board), on a terminal board or one with at most MaxEmpty empty
\* cells
call_minimax ==
    /\ pc = "play"
    /\ terminal(board) \/ Cardinality(actions(board)) <= MaxEmpty
    /\ call' = [op |-> "minimax", board |-> board]
    /\ \E action \in minimax(board) :
          ret' = [op |-> "minimax", action |-> action]
    /\ pc' = "returned"
    /\ UNCHANGED <<board, crossword, domains, assignment, stack, queue, arcs,
                   ac3caller, ac3ret, consistentRet, result>>

\* result(board, action) for any cell, empty or occupied, and for positions
\* off the board
call_result ==
    /\ pc = "play"
    /\ \E action \in Cells \cup {<<0, 3>>, <<3, 0>>} :
          /\ call' = [op |-> "result", board |-> board, action |-> action]
          /\ ret' = [op |-> "result",
                     raised |-> result_of(board, action).raised,
                     new_board |-> result_of(board, action).new_board]
          /\ board' = result_of(board, action).board
    /\ pc' = "returned"
    /\ UNCHANGED <<crossword, domains, assignment, stack, queue, arcs,
                   ac3caller, ac3ret, consistentRet, result>>

TicTacToeNext ==
    \/ play_move
    \/ call_minimax
    \/ call_result

TicTacToe == TicTacToeInit /\ [][TicTacToeNext]_vars

-----------------------------------------------------------------------------
(* Properties                                                              *)

\* solve() is over: it returned or an exception left it
Terminated == pc \in {"done", "aborted"}

\* the dict an assignment is, whatever its insertion order
AsDict(asg) == [var \in Bound(asg) |-> Value(asg, var)]

\* a dict binds slots to words of the right length, crossing bound slots
\* agree on the shared letter, and no word is used twice
Satisfies(d) ==
    /\ \A v \in DOMAIN d : Len(d[v]) = v.length
    /\ \A v1, v2 \in DOMAIN d :
          (v1 # v2 /\ overlaps(v1, v2) # NoOverlap)
             => Char(d[v1], overlaps(v1, v2)[1]) = Char(d[v2], overlaps(v1, v2)[2])
    /\ \A v1, v2 \in DOMAIN d : v1 # v2 => d[v1] # d[v2]

Solutions ==
    {d \in [crossword.variables -> crossword.words] : Satisfies(d)}

\* C1: any assignment solve() returns is complete and consistent: every slot
\* is bound, every word has its slot's length, crossing slots agree on the
\* letter at the overlap, and no two slots hold the same word.
C1_Soundness ==
    result.kind = "assignment" =>
        /\ DOMAIN AsDict(result.value) = crossword.variables
        /\ Satisfies(AsDict(result.value))

\* solve() returned an assignment of the three crossing slots of the chain
C1_Witness ==
    /\ pc = "done"
    /\ result.kind = "assignment"
    /\ crossword.variables = GridChain
    /\ Len(result.value) = 3

\* C2: whenever a complete consistent assignment exists, solve() returns a
\* complete assignment: never 'no solution', never an abort.
C2_Completeness ==
    (Terminated /\ Solutions # {}) =>
        /\ result.kind = "assignment"
        /\ DOMAIN AsDict(result.value) = crossword.variables

\* C3: on the 1x3 row with the vocabulary {CAT, DOG, ABC}, solve() returns an
\* assignment binding the slot to CAT, DOG or ABC.
C3_SingleSlot ==
    (Terminated /\ crossword = [variables |-> GridRow,
                                words |-> {CAT, DOG, ABC}]) =>
        /\ result.kind = "assignment"
        /\ DOMAIN AsDict(result.value) = {Row13}
        /\ AsDict(result.value)[Row13] \in {CAT, DOG, ABC}

\* C4: two slots of equal length that do not cross and exactly one word of
\* that length: solve() returns None as a normal result, not an exception.
C4_DuplicateOnly ==
    (/\ Terminated
     /\ crossword.variables = GridParallel
     /\ Cardinality({w \in crossword.words : Len(w) = 3}) = 1) =>
        (pc = "done" /\ result.kind = "None")

CrossCatAce == [variables |-> GridCross, words |-> {CAT, ACE}]

XCatYAce == [v \in GridCross |-> IF v = SlotX THEN CAT ELSE ACE]

XAceYCat == [v \in GridCross |-> IF v = SlotX THEN ACE ELSE CAT]

\* C5 as stated: X crossing Y at (1, 0) with the vocabulary {CAT, ACE}:
\* solve() returns {X: CAT, Y: ACE} for every resolution of the tie-breaks.
C5_OnlyCatAce ==
    (Terminated /\ crossword = CrossCatAce) =>
        (result.kind = "assignment" /\ AsDict(result.value) = XCatYAce)

\* C5 amended: with the vocabulary {CAT, ACE} two crossing pairs are valid,
\* X = CAT with Y = ACE and X = ACE with Y = CAT, and solve() returns one of
\* these two assignments.
C5_EitherPair ==
    crossword = CrossCatAce =>
        /\ Solutions = {XCatYAce, XAceYCat}
        /\ Terminated =>
              /\ pc = "done"
              /\ result.kind = "assignment"
              /\ AsDict(result.value) \in {XCatYAce, XAceYCat}

\* solve() returned {X: ACE, Y: CAT}
C5_Witness ==
    /\ crossword = CrossCatAce
    /\ pc = "done"
    /\ result.kind = "assignment"
    /\ AsDict(result.value) = XAceYCat

CrossCatDog == [variables |-> GridCross, words |-> {CAT, DOG}]

\* C6: X crossing Y at (1, 0) with the vocabulary {CAT, DOG}: solve() returns
\* 'no solution'.
C6_CatDogNoSolution ==
    (Terminated /\ crossword = CrossCatDog) =>
        (pc = "done" /\ result.kind = "None")

\* solve() returned None on the {CAT, DOG} crossing
C6_Witness ==
    /\ crossword = CrossCatDog
    /\ pc = "done"
    /\ result.kind = "None"

\* C7: once the full AC-3 pass of solve() has failed, solve() reports 'no
\* solution' at once: backtrack is never invoked from that state.
C7_NoSearchAfterFailedAC3 ==
    (ac3caller = "solve" /\ ac3ret = "False") =>
        \/ pc = "ac3_returned"
        \/ pc = "done" /\ result.kind = "None" /\ stack = <<>>

\* C8: after a successful ac3() with no initial arcs, every word of
\* domain(x) has a word of domain(y) agreeing at the overlap, for every pair
\* of neighbors, and a further revise(x, y) removes nothing.
C8_ArcConsistent ==
    (pc = "ac3_returned" /\ ac3ret = "True" /\ arcs.none) =>
        \A x \in crossword.variables : \A y \in neighbors(x) :
            /\ \A wx \in domains[x] : \E wy \in domains[y] :
                  Char(wx, overlaps(x, y)[1]) = Char(wy, overlaps(x, y)[2])
            /\ revise(domains, x, y) = domains[x]

\* ac3() succeeded on the chain after removing words from a domain that
\* node consistency had left
C8_Witness ==
    /\ pc = "ac3_returned"
    /\ ac3ret = "True"
    /\ arcs.none
    /\ crossword.variables = GridChain
    /\ \A v \in crossword.variables : domains[v] # {}
    /\ \E v \in crossword.variables :
          domains[v] # {w \in crossword.words : Len(w) = v.length}

\* C9: ac3 returns true only when no domain is left empty.
C9_TrueMeansNoEmptyDomain ==
    (pc = "ac3_returned" /\ ac3ret = "True") =>
        \A v \in crossword.variables : domains[v] # {}

\* C10: consistent(assignment) always returns a boolean, true exactly when
\* every bound word has its slot's length, bound neighbors agree at their
\* overlap and no two bound slots hold the same word.
C10_ConsistentIff ==
    pc = "consistent_returned" =>
        consistentRet = (IF Satisfies(AsDict(assignment)) THEN "True"
                         ELSE "False")

\* the store a unit call was made on, and its operation
Returned(op) == pc = "unit_returned" /\ call.op = op

\* C11: revise(x, y) for neighbors with overlap (i, j) removes from domain(x)
\* exactly the words wx with no wy in domain(y) such that wx[i] = wy[j],
\* leaves every other domain unchanged and returns true exactly when a word
\* was removed; with no overlap it removes nothing and returns false.
C11_ReviseExact ==
    Returned("revise") =>
        LET x == call.x
            y == call.y
            before == call.domains
            unsupported ==
                {wx \in before[x] :
                    ~ \E wy \in before[y] :
                        Char(wx, overlaps(x, y)[1]) = Char(wy, overlaps(x, y)[2])}
        IN /\ \A v \in crossword.variables \ {x} : domains[v] = before[v]
           /\ overlaps(x, y) # NoOverlap =>
                 /\ domains[x] = before[x] \ unsupported
                 /\ ret.revised = (unsupported # {})
           /\ overlaps(x, y) = NoOverlap =>
                 /\ domains[x] = before[x]
                 /\ ret.revised = FALSE

\* revise(x, y) removed a word of domain(x) and left another
C11_Witness ==
    /\ Returned("revise")
    /\ ret.revised = TRUE
    /\ domains[call.x] # {}
    /\ domains[call.x] # call.domains[call.x]
    /\ domains[call.y] = call.domains[call.y]

\* C12: after enforce_node_consistency, domain(s) is exactly the set of the
\* words that were in domain(s) before the call and have length s.length.
C12_NodeConsistencyExact ==
    Returned("enforce_node_consistency") =>
        \A s \in crossword.variables :
            domains[s] = {w \in call.domains[s] : Len(w) = s.length}

\* a call removed two words of a wrong length from a domain and kept one of
\* the right length
C12_Witness ==
    /\ Returned("enforce_node_consistency")
    /\ call.nth = 1
    /\ \E s \in crossword.variables :
          /\ domains[s] # {}
          /\ Cardinality(call.domains[s] \ domains[s]) = 2

\* C13: enforce_node_consistency called twice in a row leaves the Domain
\* Store the first call left: the second call changes nothing.
C13_NodeConsistencyIdempotent ==
    (Returned("enforce_node_consistency") /\ call.nth = 2) =>
        /\ domains = call.domains
        /\ domains = enforce_node_consistency(call.first)

\* the second of two calls in a row returned, the first having removed words
C13_Witness ==
    /\ Returned("enforce_node_consistency")
    /\ call.nth = 2
    /\ call.first # call.domains
    /\ domains = call.domains

\* C14: ac3 always terminates: from every Domain Store and every `arcs`
\* argument, a running ac3 eventually returns.
C14_Ac3Terminates == (pc = "ac3") ~> (pc = "ac3_returned")

\* ac3 returned True from a list of two given arcs after shrinking a domain
C14_Witness ==
    /\ pc = "ac3_returned"
    /\ ac3caller = "unit"
    /\ ac3ret = "True"
    /\ ~ call.arcs.none
    /\ Len(call.arcs.list) = MaxArcs
    /\ domains # call.domains

\* C15: with at least one slot unassigned, select_unassigned_variable
\* returns a slot that is not in the assignment, whose domain is of minimal
\* size among the unassigned slots and which has the most unassigned
\* neighbors among the unassigned slots of that size.
C15_SelectMRVDegree ==
    Returned("select_unassigned_variable") =>
        LET chosen == ret.variable
            unassigned == crossword.variables \ Bound(call.assignment)
            size(v) == Cardinality(call.domains[v])
            degree(v) == Cardinality(neighbors(v) \ Bound(call.assignment))
        IN /\ chosen \in unassigned
           /\ \A u \in unassigned : size(chosen) <= size(u)
           /\ \A u \in unassigned :
                 size(u) = size(chosen) => degree(chosen) >= degree(u)

\* a tie of domain sizes was broken by the number of unassigned neighbors,
\* with a larger domain left aside
C15_Witness ==
    /\ Returned("select_unassigned_variable")
    /\ LET unassigned == crossword.variables \ Bound(call.assignment)
           size(v) == Cardinality(call.domains[v])
           degree(v) == Cardinality(neighbors(v) \ Bound(call.assignment))
       IN /\ \E u \in unassigned :
                size(u) = size(ret.variable) /\ degree(u) < degree(ret.variable)
          /\ \E u \in unassigned : size(u) > size(ret.variable)

RECURSIVE SumOver(_, _)
\* the sum of f[e] over the elements e of a finite set
SumOver(S, f) ==
    IF S = {} THEN 0
    ELSE LET e == CHOOSE e \in S : TRUE
         IN f[e] + SumOver(S \ {e}, f)

\* the elimination count of a candidate: over the unassigned neighbors of
\* the slot, the words that equal the candidate or differ from it at the
\* shared position
EliminationCount(slot, asg, doms, candidate) ==
    SumOver(neighbors(slot) \ Bound(asg),
            [n \in neighbors(slot) \ Bound(asg) |->
                Cardinality({w \in doms[n] :
                    \/ w = candidate
                    \/ Char(candidate, overlaps(slot, n)[1])
                         # Char(w, overlaps(slot, n)[2])})])

\* C16: order_domain_values(slot, assignment) returns every word of
\* domain(slot) exactly once, in non-decreasing order of the elimination
\* count, which is taken over the unassigned neighbors only.
C16_OrderLCV ==
    Returned("order_domain_values") =>
        LET values == ret.values
            count(w) == EliminationCount(call.var, call.assignment,
                                         call.domains, w)
        IN /\ Len(values) = Cardinality(call.domains[call.var])
           /\ {values[k] : k \in DOMAIN values} = call.domains[call.var]
           /\ \A a, b \in DOMAIN values :
                 a < b => count(values[a]) <= count(values[b])
           /\ domains = call.domains

\* the list orders two words of different counts, for a slot with a bound
\* neighbor and an unassigned one
C16_Witness ==
    /\ Returned("order_domain_values")
    /\ Len(ret.values) >= 2
    /\ EliminationCount(call.var, call.assignment, call.domains,
                        ret.values[1])
         < EliminationCount(call.var, call.assignment, call.domains,
                            ret.values[Len(ret.values)])
    /\ neighbors(call.var) \cap Bound(call.assignment) # {}
    /\ neighbors(call.var) \ Bound(call.assignment) # {}

\* C19: ac3 called with an explicit list of arcs works on that list only; in
\* particular with an explicit empty list (as backtrack builds when no bound
\* slot has an unassigned neighbor) the queue is empty from the start: no
\* arc is revised, no domain changes and ac3 returns true.
C19_ExplicitArcsOnly ==
    (pc = "ac3" /\ ~ arcs.none /\ arcs.list = <<>>) => queue = <<>>

\* C20: every abandoned trial is undone exactly: at the head of the for
\* loop of a call of backtrack, before each candidate and when the call
\* returns None, the Domain Store and the assignment are those of the entry
\* of that call.
C20_TrialsUndone ==
    pc = "for" =>
        /\ domains = Top.entry.domains
        /\ assignment = Top.entry.assignment

\* on the ring every candidate of the first slot was abandoned after its
\* ac3 emptied a domain, and the call is about to return None
C20_Witness ==
    /\ pc = "for"
    /\ crossword = RingPuzzle
    /\ Top.values = <<>>
    /\ ac3caller = "backtrack"
    /\ ac3ret = "False"
    /\ \A var \in crossword.variables : Cardinality(domains[var]) = 2

RECURSIVE GameValue(_)
\* the value of a board under optimal play by both sides: the utility of a
\* finished game, else the best value the player to move can reach, X
\* taking the largest and O the smallest
GameValue(b) ==
    IF terminal(b) THEN utility(b)
    ELSE LET next == {GameValue(result_of(b, a).new_board) : a \in actions(b)}
         IN IF player(b) = X THEN Largest(next) ELSE Smallest(next)

\* C17: minimax(board) returns None on a terminal board, and otherwise an
\* action of actions(board) after which the game value is the maximum over
\* all actions when X is to move and the minimum when O is to move.
C17_MinimaxOptimal ==
    (pc = "returned" /\ call.op = "minimax") =>
        LET b == call.board
            after == {<<a, GameValue(result_of(b, a).new_board)>> :
                         a \in actions(b)}
            reached == {p[2] : p \in after}
        IN IF terminal(b) THEN ret.action = NoAction
           ELSE /\ ret.action \in actions(b)
                /\ ValueOf(after, ret.action)
                     = IF player(b) = X THEN Largest(reached)
                       ELSE Smallest(reached)

\* minimax chose for O among actions of three different game values
C17_Witness ==
    /\ pc = "returned"
    /\ call.op = "minimax"
    /\ ~ terminal(call.board)
    /\ player(call.board) = O
    /\ ret.action \in actions(call.board)
    /\ {GameValue(result_of(call.board, a).new_board) :
           a \in actions(call.board)} = {-1, 0, 1}

\* C18: result(board, action) raises when the action is not in
\* actions(board), and otherwise returns a board that differs from the input
\* only at the action's cell, which holds player(board); the input board is
\* unchanged in both cases.
C18_ResultContract ==
    (pc = "returned" /\ call.op = "result") =>
        /\ board = call.board
        /\ ret.raised = (call.action \notin actions(call.board))
        /\ ~ ret.raised =>
              \A c \in Cells :
                  At(ret.new_board, c) = IF c = call.action
                                         THEN player(call.board)
                                         ELSE At(call.board, c)

\* result returned a board on which O took an empty cell
C18_Witness ==
    /\ pc = "returned"
    /\ call.op = "result"
    /\ ~ ret.raised
    /\ At(call.board, call.action) = EMPTY
    /\ At(ret.new_board, call.action) = O
    /\ board = call.board

\* C21: once a call of backtrack returns a complete assignment, success goes
\* straight up: every further step only returns from an enclosing call,
\* leaving the Domain Store, the assignment and the untried values of every
\* frame as they are, until solve() returns that assignment.
C21_SuccessPropagates ==
    [][pc = "return_assignment" =>
          /\ domains' = domains
          /\ assignment' = assignment
          /\ pc' \in {"return_assignment", "done"}
          /\ \A k \in DOMAIN stack' : stack'[k] = stack[k]
          /\ Len(stack') <= Len(stack)
          /\ pc' = "done" =>
                result' = [kind |-> "assignment", value |-> assignment]]_vars

\* a complete assignment is on its way up through two enclosing calls, the
\* outer one with a value left to try
C21_Witness ==
    /\ pc = "return_assignment"
    /\ Len(stack) = 2
    /\ stack[1].values # <<>>
    /\ assignment_complete(assignment)

\* C22: from the completion of enforce_node_consistency in solve() on, in
\* every reached state and for every slot s, every word of domain(s) is a
\* word of the vocabulary of length s.length: through narrowing, AC-3 and
\* the restores of snapshots.
C22_DomainsWellFormed ==
    pc # "solve" =>
        \A s \in crossword.variables :
            \A word \in domains[s] :
                word \in crossword.words /\ Len(word) = s.length

\* with a word in the vocabulary that fits no slot, the outermost call is
\* back at its for loop after a trial that narrowed the domains and ran
\* ac3: the snapshot of that trial was restored
C22_Witness ==
    /\ pc = "for"
    /\ AT \in crossword.words
    /\ Len(stack) = 1
    /\ ac3caller = "backtrack"
    /\ \E s \in crossword.variables : Cardinality(domains[s]) >= 2
    /\ \E s \in crossword.variables :
          \E word \in crossword.words : Len(word) # s.length

\* C23: at the entry of every call of backtrack made from within backtrack
\* (after the ac3 of a trial succeeded), the domain of every bound slot s is
\* the singleton {assignment[s]} and the domain of every unbound slot is
\* non-empty.
C23_RecursiveEntry ==
    (pc = "backtrack" /\ ac3caller = "backtrack") =>
        \A s \in crossword.variables :
            IF s \in Bound(assignment)
            THEN domains[s] = {Value(assignment, s)}
            ELSE domains[s] # {}

\* a recursive call is entered with a slot still unbound whose domain the
\* ac3 of the trial has shrunk
C23_Witness ==
    /\ pc = "backtrack"
    /\ ac3caller = "backtrack"
    /\ ac3ret = "True"
    /\ \E s \in crossword.variables \ Bound(assignment) :
          /\ domains[s] # {}
          /\ domains[s] # Top.domains_copy[s]

=============================================================================
